---- MODULE Spec2Model ----
(***************************************************************************)
(* Model of the scheduler backend: DataLoader (loaders.py), the            *)
(* ScheduleDataProcessor (processors.py), the service singletons           *)
(* (services.py) and the schedule_table view (views.py).                   *)
(*                                                                         *)
(* Python values are represented as follows.                               *)
(*   str            a sequence of one-character strings                    *)
(*   Optional[T]    <<>> for None, <<v>> for a value v                     *)
(*   list           a sequence                                             *)
(*   dict           a function                                             *)
(*   JSON object    a record; a missing key is a missing field             *)
(***************************************************************************)
EXTENDS Integers, Sequences, FiniteSets, TLC

(***************************************************************************)
(* Bounds                                                                  *)
(***************************************************************************)
\* longest assignments.json list drawn for the table specification
MaxAssignments == 3
\* longest assignments.json list drawn for the service specification
MaxServiceAssignments == 2
\* number of threads that call the DataLoader at the same time
NumThreads == 2
\* calls each thread makes on the DataLoader
MaxLoaderCalls == 1

(***************************************************************************)
(* Strings                                                                 *)
(***************************************************************************)
\* the characters used, in code point order (str comparison order)
AsciiOrder ==
    <<" ", "-", "0", "1", "2", "3", "4", "5", "6", "7", "8", "9",
      "a", "d", "e", "i", "l", "n", "t", "v">>

Ord(c) == CHOOSE i \in 1..Len(AsciiOrder) : AsciiOrder[i] = c

Digits == {"0", "1", "2", "3", "4", "5", "6", "7", "8", "9"}

DigitVal(c) == Ord(c) - Ord("0")

\* str.__lt__: lexicographic comparison by code point
StrLess(s, t) ==
    \/ /\ Len(s) < Len(t)
       /\ \A i \in 1..Len(s) : s[i] = t[i]
    \/ \E i \in 1..Len(s) :
          /\ i <= Len(t)
          /\ \A j \in 1..(i - 1) : s[j] = t[j]
          /\ Ord(s[i]) < Ord(t[i])

\* sorted() over a set of str
RECURSIVE SortedStrs(_)
SortedStrs(S) ==
    IF S = {} THEN <<>>
    ELSE LET m == CHOOSE x \in S : \A y \in S \ {x} : StrLess(x, y)
         IN  <<m>> \o SortedStrs(S \ {m})

\* int() of a run of decimal digits
RECURSIVE NumVal(_)
NumVal(s) ==
    IF s = <<>> THEN 0
    ELSE 10 * NumVal(SubSeq(s, 1, Len(s) - 1)) + DigitVal(s[Len(s)])

AllDigits(s) == \A i \in 1..Len(s) : s[i] \in Digits

\* '%02d' % n for 0 <= n <= 99
TwoDigits(n) == <<AsciiOrder[Ord("0") + (n \div 10)], AsciiOrder[Ord("0") + (n % 10)]>>

(***************************************************************************)
(* Dates                                                                   *)
(***************************************************************************)
IsLeap(y) == (y % 4 = 0 /\ y % 100 # 0) \/ y % 400 = 0

DaysInMonth(y, m) ==
    IF m = 2 THEN (IF IsLeap(y) THEN 29 ELSE 28)
    ELSE IF m \in {4, 6, 9, 11} THEN 30 ELSE 31

\* datetime.strptime(date_str, "%Y-%m-%d").date(): the value, or a ValueError
strptime(date_str) ==
    LET dashes == {i \in 1..Len(date_str) : date_str[i] = "-"}
        bad    == [ok |-> FALSE, year |-> 0, month |-> 0, day |-> 0]
    IN  IF Cardinality(dashes) # 2 THEN bad
        ELSE
          LET i == CHOOSE k \in dashes : \A l \in dashes : k <= l
              j == CHOOSE k \in dashes : \A l \in dashes : k >= l
              Y == SubSeq(date_str, 1, i - 1)
              M == SubSeq(date_str, i + 1, j - 1)
              D == SubSeq(date_str, j + 1, Len(date_str))
          IN  IF /\ AllDigits(Y) /\ AllDigits(M) /\ AllDigits(D)
                 /\ Len(Y) = 4
                 /\ Len(M) \in {1, 2}
                 /\ Len(D) \in {1, 2}
                 /\ NumVal(Y) >= 1
                 /\ NumVal(M) \in 1..12
                 /\ NumVal(D) >= 1
                 /\ NumVal(D) <= DaysInMonth(NumVal(Y), NumVal(M))
                 /\ (Len(M) = 1 => M[1] # "0")
                 /\ (Len(D) = 1 => D[1] # "0")
              THEN [ok |-> TRUE, year |-> NumVal(Y), month |-> NumVal(M), day |-> NumVal(D)]
              ELSE bad

\* django.utils.dateformat 'M': three-letter month abbreviation
MonthAbbr ==
    <<"Jan", "Feb", "Mar", "Apr", "May", "Jun",
      "Jul", "Aug", "Sep", "Oct", "Nov", "Dec">>

\* date_format(date_obj, "d M y"): 'd' is the day of the month as two digits
\* with a leading zero, 'y' the year as two digits
date_format(dt) ==
    TwoDigits(dt.day) \o <<" ", MonthAbbr[dt.month], " ">> \o TwoDigits(dt.year % 100)

\* _format_date without its except clause: the ValueError escapes
_format_date_unwrapped(date_str) ==
    LET dt == strptime(date_str)
    IN  IF dt.ok
        THEN [exc |-> "", value |-> date_format(dt)]
        ELSE [exc |-> "ValueError", value |-> <<>>]

\* ScheduleDataProcessor._format_date: the formatted str, or the exception
_format_date(date_str) ==
    LET dt == strptime(date_str)
    IN  IF dt.ok
        THEN [exc |-> "", value |-> date_format(dt)]
        ELSE [exc |-> "ScheduleProcessorError", value |-> <<>>]

(***************************************************************************)
(* State                                                                   *)
(***************************************************************************)
VARIABLES
    files,              \* content of data/positions.json, workers.json, tasks.json, assignments.json
    EMPTY_POSITION_ID,  \* constants.EMPTY_POSITION_ID, fixed per build
    loader,             \* the fields of the DataLoader instance
    _data_loader,       \* services._data_loader
    _processor,         \* services._processor
    calls,              \* outcomes of the last two process_schedule_data calls since the last refresh_cache
    response,           \* the last Response returned by schedule_table
    formatted,          \* argument and outcome of the last direct _format_date call
    loaded,             \* the last call made directly on the loader, or write to a file, and its outcome
    threads,            \* per thread: the DataLoader method it runs, its position in it and its locals
    reads,              \* per file: how often it was read and cached since the last refresh_cache call began
    refreshed           \* refresh_cache was called since the loader was constructed

vars == <<files, EMPTY_POSITION_ID, loader, _data_loader, _processor, calls, response, formatted,
          loaded, threads, reads, refreshed>>

None == <<>>
Some(v) == <<v>>

\* "Name" as a str
NameColumn == <<"N", "a", "m", "e">>

\* the request threads of the server process: they share services._data_loader
Threads == 1..NumThreads

\* constants.EMPTY_POSITION_NAME
EMPTY_POSITION_NAME == "Empty Position"

\* values the reserved id may have: below and above every real position id
EmptyPositionIds == {0, 99}

(***************************************************************************)
(* DataLoader                                                              *)
(***************************************************************************)
\* DataLoader.__init__
NewLoader ==
    [_positions |-> None, _workers |-> None, _tasks |-> None, _assignments |-> None,
     _positions_by_id |-> None, _workers_by_id |-> None, _tasks_by_id |-> None,
     _assignments_by_task_id |-> None]

\* A data file is [kind, data]: kind "list" holds a JSON list; the other
\* kinds are "missing", "unreadable" (OSError), "invalid_json", "not_list"
\* and "bad_encoding" (UnicodeDecodeError out of json.load).
_load_json_file(file) ==
    CASE file.kind = "list"         -> [exc |-> "", data |-> file.data]
      [] file.kind = "bad_encoding" -> [exc |-> "UnicodeDecodeError", data |-> <<>>]
      [] OTHER                      -> [exc |-> "DataLoaderError", data |-> <<>>]

\* rec[key] succeeds; a record without the field stands for a KeyError, or
\* for the TypeError of a list entry that is not an object
HasKey(rec, key) == key \in DOMAIN rec

\* {rec[key]: rec for rec in data}: a later record replaces an earlier one
ById(data, key) ==
    [k \in {data[i][key] : i \in DOMAIN data} |->
        data[CHOOSE i \in DOMAIN data :
                /\ data[i][key] = k
                /\ \A j \in DOMAIN data : data[j][key] = k => j <= i]]

\* LoadAndCache caching data[:-1] while returning data
LoadAndCacheTruncated(ld, file, listField, dictField, key) ==
    IF ld[listField] = None
    THEN LET r == _load_json_file(file)
             kept == SubSeq(r.data, 1, Len(r.data) - 1)
         IN  IF r.exc # ""
             THEN [exc |-> r.exc, value |-> <<>>, loader |-> ld]
             ELSE LET ld1 == [ld EXCEPT ![listField] = Some(kept)]
                  IN  IF \E i \in DOMAIN r.data : ~HasKey(r.data[i], key)
                      THEN [exc |-> "DataLoaderError", value |-> <<>>, loader |-> ld1]
                      ELSE [exc |-> "", value |-> r.data,
                            loader |-> [ld1 EXCEPT ![dictField] = Some(ById(r.data, key))]]
    ELSE [exc |-> "", value |-> ld[listField][1], loader |-> ld]

\* the common body of get_positions, get_workers, get_tasks, get_assignments
LoadAndCache(ld, file, listField, dictField, key) ==
    IF ld[listField] = None
    THEN LET r == _load_json_file(file)
         IN  IF r.exc # ""
             THEN [exc |-> r.exc, value |-> <<>>, loader |-> ld]
             ELSE LET ld1 == [ld EXCEPT ![listField] = Some(r.data)]
                  IN  IF \E i \in DOMAIN r.data : ~HasKey(r.data[i], key)
                      THEN [exc |-> "DataLoaderError", value |-> <<>>, loader |-> ld1]
                      ELSE [exc |-> "", value |-> r.data,
                            loader |-> [ld1 EXCEPT ![dictField] = Some(ById(r.data, key))]]
    ELSE [exc |-> "", value |-> ld[listField][1], loader |-> ld]

get_positions(ld, fs) == LoadAndCache(ld, fs.positions, "_positions", "_positions_by_id", "id")

get_workers(ld, fs) == LoadAndCache(ld, fs.workers, "_workers", "_workers_by_id", "id")

\* get_tasks with every task's date parsed when the file is loaded
get_tasks_validating(ld, fs) ==
    IF /\ ld._tasks = None
       /\ fs.tasks.kind = "list"
       /\ \E i \in DOMAIN fs.tasks.data :
             HasKey(fs.tasks.data[i], "date") /\ ~strptime(fs.tasks.data[i].date).ok
    THEN [exc |-> "DataLoaderError", value |-> <<>>, loader |-> ld]
    ELSE LoadAndCache(ld, fs.tasks, "_tasks", "_tasks_by_id", "id")

get_tasks(ld, fs) == LoadAndCache(ld, fs.tasks, "_tasks", "_tasks_by_id", "id")

get_assignments(ld, fs) ==
    LoadAndCache(ld, fs.assignments, "_assignments", "_assignments_by_task_id", "task_id")

\* LookupById with dict.get(id, default) in place of dict.get(id)
LookupByIdDefault(r, dictField, id) ==
    IF r.exc # ""
    THEN [exc |-> r.exc, value |-> None, loader |-> r.loader]
    ELSE IF r.loader[dictField] = None
         THEN [exc |-> "AttributeError", value |-> None, loader |-> r.loader]
         ELSE LET d == r.loader[dictField][1]
              IN  [exc |-> "",
                   value |-> IF id \in DOMAIN d
                             THEN Some(d[id])
                             ELSE Some([id |-> id, name |-> "Unknown", position_id |-> None,
                                        duration |-> 0, date |-> <<>>]),
                   loader |-> r.loader]

\* the common body of get_position_by_id, get_worker_by_id, get_task_by_id:
\* value is the Optional record found
LookupById(r, dictField, id) ==
    IF r.exc # ""
    THEN [exc |-> r.exc, value |-> None, loader |-> r.loader]
    ELSE IF r.loader[dictField] = None
         THEN [exc |-> "AttributeError", value |-> None, loader |-> r.loader]
         ELSE LET d == r.loader[dictField][1]
              IN  [exc |-> "",
                   value |-> IF id \in DOMAIN d THEN Some(d[id]) ELSE None,
                   loader |-> r.loader]

\* the lookup dictionary is there: get_positions, get_workers, get_tasks is not called
NoCall(ld) == [exc |-> "", value |-> <<>>, loader |-> ld]

get_position_by_id(ld, fs, position_id) ==
    LookupById(IF ld._positions_by_id = None THEN get_positions(ld, fs) ELSE NoCall(ld),
               "_positions_by_id", position_id)

get_worker_by_id(ld, fs, worker_id) ==
    LookupById(IF ld._workers_by_id = None THEN get_workers(ld, fs) ELSE NoCall(ld),
               "_workers_by_id", worker_id)

get_task_by_id(ld, fs, task_id) ==
    LookupById(IF ld._tasks_by_id = None THEN get_tasks(ld, fs) ELSE NoCall(ld),
               "_tasks_by_id", task_id)

\* refresh_cache without the four statements that clear the dictionaries
refresh_cache_lists_only(ld) ==
    [ld EXCEPT !._positions = None, !._workers = None, !._tasks = None, !._assignments = None]

\* DataLoader.refresh_cache
refresh_cache(ld) == NewLoader

\* the attributes of the loader that cache a file, and the key of its records
\* the lookup dictionary is built on
ListField(f) ==
    CASE f = "positions" -> "_positions"     [] f = "workers"     -> "_workers"
      [] f = "tasks"     -> "_tasks"         [] f = "assignments" -> "_assignments"

DictField(f) ==
    CASE f = "positions" -> "_positions_by_id" [] f = "workers"     -> "_workers_by_id"
      [] f = "tasks"     -> "_tasks_by_id"     [] f = "assignments" -> "_assignments_by_task_id"

KeyOf(f) == IF f = "assignments" THEN "task_id" ELSE "id"

\* the attributes in the order refresh_cache clears them
RefreshFields ==
    <<"_positions", "_workers", "_tasks", "_assignments",
      "_positions_by_id", "_workers_by_id", "_tasks_by_id", "_assignments_by_task_id">>

\* the files a call has read and cached: the list attribute was None before
\* the call and is set after it
CountReads(rd, ld, ld2) ==
    [f \in DOMAIN rd |->
        rd[f] + (IF ld[ListField(f)] = None /\ ld2[ListField(f)] # None THEN 1 ELSE 0)]

(***************************************************************************)
(* set() of small non-negative int, as CPython keeps it: a table of 8      *)
(* slots, hash(n) = n, open addressing; iteration runs over the slots in   *)
(* index order.  The table is not resized below 5 entries.                 *)
(***************************************************************************)
SetSlots == 0..7

EmptySet == [i \in SetSlots |-> None]

RECURSIVE Probe(_, _, _, _)
Probe(table, key, i, perturb) ==
    IF table[i] = None \/ table[i] = Some(key)
    THEN i
    ELSE Probe(table, key, (i * 5 + 1 + (perturb \div 32)) % 8, perturb \div 32)

\* set.add
SetAdd(table, key) == [table EXCEPT ![Probe(table, key, key % 8, key)] = Some(key)]

\* for x in set
RECURSIVE SetIter(_, _)
SetIter(table, i) ==
    IF i \notin SetSlots THEN <<>>
    ELSE (IF table[i] = None THEN <<>> ELSE table[i]) \o SetIter(table, i + 1)

(***************************************************************************)
(* ScheduleDataProcessor                                                   *)
(***************************************************************************)
\* dict.get(key, 0)
Get0(d, key) == IF key \in DOMAIN d THEN d[key] ELSE 0

\* AddTo as d[key] = n
AddToOverwrite(d, key, n) ==
    IF key \in DOMAIN d THEN [d EXCEPT ![key] = n] ELSE d @@ (key :> n)

\* AddTo as d.setdefault(key, n)
AddToSetDefault(d, key, n) ==
    IF key \in DOMAIN d THEN d ELSE d @@ (key :> n)

\* d[key] = d.get(key, 0) + n
AddTo(d, key, n) ==
    IF key \in DOMAIN d THEN [d EXCEPT ![key] = @ + n] ELSE d @@ (key :> n)

\* AddWorker as position_worker[position_id] = {worker_id}
AddWorkerReplace(pw, position_id, worker_id) ==
    IF position_id \in DOMAIN pw
    THEN [pw EXCEPT ![position_id] = SetAdd(EmptySet, worker_id)]
    ELSE pw @@ (position_id :> SetAdd(EmptySet, worker_id))

\* position_worker[position_id].add(worker_id) on a defaultdict(set)
AddWorker(pw, position_id, worker_id) ==
    IF position_id \in DOMAIN pw
    THEN [pw EXCEPT ![position_id] = SetAdd(@, worker_id)]
    ELSE pw @@ (position_id :> SetAdd(EmptySet, worker_id))

Raise(st, exc, ld) == [st EXCEPT !.exc = exc, !.loader = ld]

\* LoopBody with the position taken from the worker's record instead of
\* the task's
LoopBodyWorkerPosition(st, fs, E, assignment) ==
    IF ~HasKey(assignment, "task_id") THEN Raise(st, "KeyError", st.loader)
    ELSE
      LET t == get_task_by_id(st.loader, fs, assignment.task_id)
      IN  IF t.exc # "" THEN Raise(st, t.exc, t.loader)
          ELSE IF t.value = None THEN Raise(st, "TypeError", t.loader)
          ELSE IF \/ ~HasKey(t.value[1], "date")
                  \/ ~HasKey(assignment, "worker_id")
                  \/ ~HasKey(t.value[1], "duration")
               THEN Raise(st, "KeyError", t.loader)
          ELSE
            LET w == get_worker_by_id(t.loader, fs, assignment.worker_id)
            IN  IF w.exc # "" THEN Raise(st, w.exc, w.loader)
                ELSE IF w.value = None THEN Raise(st, "TypeError", w.loader)
                ELSE IF ~HasKey(w.value[1], "position_id") THEN Raise(st, "KeyError", w.loader)
                ELSE
                  LET date        == t.value[1].date
                      worker_id   == assignment.worker_id
                      duration    == t.value[1].duration
                      position_id == IF w.value[1].position_id # None
                                     THEN w.value[1].position_id[1]
                                     ELSE E
                  IN  [st EXCEPT
                         !.loader          = w.loader,
                         !.worker_date     = AddTo(@, <<worker_id, date>>, duration),
                         !.dates           = @ \cup {date},
                         !.position_worker = AddWorker(@, position_id, worker_id),
                         !.position_date   = AddTo(@, <<position_id, date>>, duration)]

\* LoopBody with the worker's hours counted only for the first position
\* the worker is grouped under
LoopBodyFirstPosition(st, fs, E, assignment) ==
    IF ~HasKey(assignment, "task_id") THEN Raise(st, "KeyError", st.loader)
    ELSE
      LET t == get_task_by_id(st.loader, fs, assignment.task_id)
      IN  IF t.exc # "" THEN Raise(st, t.exc, t.loader)
          ELSE IF t.value = None THEN Raise(st, "TypeError", t.loader)
          ELSE
            LET task == t.value[1]
            IN  IF \/ ~HasKey(task, "date")
                   \/ ~HasKey(assignment, "worker_id")
                   \/ ~HasKey(task, "duration")
                   \/ ~HasKey(task, "position_id")
                THEN Raise(st, "KeyError", t.loader)
                ELSE
                  LET date        == task.date
                      worker_id   == assignment.worker_id
                      duration    == task.duration
                      position_id == IF task.position_id # None
                                     THEN task.position_id[1]
                                     ELSE E
                      elsewhere   == \E q \in DOMAIN st.position_worker \ {position_id} :
                                        \E i \in SetSlots :
                                           st.position_worker[q][i] = Some(worker_id)
                  IN  [st EXCEPT
                         !.loader          = t.loader,
                         !.worker_date     = IF elsewhere THEN @
                                             ELSE AddTo(@, <<worker_id, date>>, duration),
                         !.dates           = @ \cup {date},
                         !.position_worker = AddWorker(@, position_id, worker_id),
                         !.position_date   = AddTo(@, <<position_id, date>>, duration)]

\* the body of the loop over the assignments (processors.py 60-80);
\* worker_date and position_date are keyed by <<id, date>>
LoopBody(st, fs, E, assignment) ==
    IF ~HasKey(assignment, "task_id") THEN Raise(st, "KeyError", st.loader)
    ELSE
      LET t == get_task_by_id(st.loader, fs, assignment.task_id)
      IN  IF t.exc # "" THEN Raise(st, t.exc, t.loader)
          ELSE IF t.value = None THEN Raise(st, "TypeError", t.loader)
          ELSE
            LET task == t.value[1]
            IN  IF \/ ~HasKey(task, "date")
                   \/ ~HasKey(assignment, "worker_id")
                   \/ ~HasKey(task, "duration")
                   \/ ~HasKey(task, "position_id")
                THEN Raise(st, "KeyError", t.loader)
                ELSE
                  LET date        == task.date
                      worker_id   == assignment.worker_id
                      duration    == task.duration
                      position_id == IF task.position_id # None
                                     THEN task.position_id[1]
                                     ELSE E
                  IN  [st EXCEPT
                         !.loader          = t.loader,
                         !.worker_date     = AddTo(@, <<worker_id, date>>, duration),
                         !.dates           = @ \cup {date},
                         !.position_worker = AddWorker(@, position_id, worker_id),
                         !.position_date   = AddTo(@, <<position_id, date>>, duration)]

RECURSIVE Loop(_, _, _, _, _)
Loop(st, fs, E, assignments, i) ==
    IF st.exc # "" \/ i > Len(assignments) THEN st
    ELSE Loop(LoopBody(st, fs, E, assignments[i]), fs, E, assignments, i + 1)

\* KeyLess with the sort key x
KeyLessById(E, x, y) == x < y

\* the sort key (x == EMPTY_POSITION_ID, x), compared as a tuple
KeyLess(E, x, y) == IF (x = E) # (y = E) THEN y = E ELSE x < y

\* sorted(position_worker.keys(), key=...)
RECURSIVE SortedPositions(_, _)
SortedPositions(keys, E) ==
    IF keys = {} THEN <<>>
    ELSE LET m == CHOOSE x \in keys : \A y \in keys \ {x} : KeyLess(E, x, y)
         IN  <<m>> \o SortedPositions(keys \ {m}, E)

\* RowValues over the dates the row has an entry for
RowValuesSparse(d, id, dates) ==
    LET present == SelectSeq(dates, LAMBDA date : <<id, date>> \in DOMAIN d)
    IN  [k \in 1..Len(present) |-> d[<<id, present[k]>>]]

\* [d[id].get(date, 0) for date in dates]
RowValues(d, id, dates) == [k \in 1..Len(dates) |-> Get0(d, <<id, dates[k]>>)]

\* the loop over the workers of one position (processors.py 99-102)
RECURSIVE WorkerRows(_, _, _, _, _, _)
WorkerRows(em, fs, st, dates, workers, k) ==
    IF em.exc # "" \/ k > Len(workers) THEN em
    ELSE
      LET w == get_worker_by_id(em.loader, fs, workers[k])
      IN  IF w.exc # "" THEN [em EXCEPT !.exc = w.exc, !.loader = w.loader]
          ELSE IF w.value = None
               THEN [em EXCEPT !.exc = "TypeError", !.loader = w.loader]
          ELSE IF ~HasKey(w.value[1], "name")
               THEN [em EXCEPT !.exc = "KeyError", !.loader = w.loader]
          ELSE
            LET worker_row == <<w.value[1].name>> \o RowValues(st.worker_date, workers[k], dates)
            IN  WorkerRows([em EXCEPT !.loader = w.loader,
                                      !.schedule = Append(@, worker_row)],
                           fs, st, dates, workers, k + 1)

\* the loop over the sorted positions (processors.py 88-102)
RECURSIVE PositionRows(_, _, _, _, _, _, _)
PositionRows(em, fs, E, st, dates, sorted_positions, k) ==
    IF em.exc # "" \/ k > Len(sorted_positions) THEN em
    ELSE
      LET position_id == sorted_positions[k]
          p == IF position_id = E
               THEN [exc |-> "", value |-> Some([name |-> EMPTY_POSITION_NAME]), loader |-> em.loader]
               ELSE get_position_by_id(em.loader, fs, position_id)
      IN  IF p.exc # "" THEN [em EXCEPT !.exc = p.exc, !.loader = p.loader]
          ELSE IF p.value = None
               THEN [em EXCEPT !.exc = "TypeError", !.loader = p.loader]
          ELSE IF ~HasKey(p.value[1], "name")
               THEN [em EXCEPT !.exc = "KeyError", !.loader = p.loader]
          ELSE
            LET position_row == <<p.value[1].name>> \o RowValues(st.position_date, position_id, dates)
                em1 == [em EXCEPT !.loader = p.loader, !.schedule = Append(@, position_row)]
                em2 == WorkerRows(em1, fs, st, dates,
                                  SetIter(st.position_worker[position_id], 0), 1)
            IN  PositionRows(em2, fs, E, st, dates, sorted_positions, k + 1)

\* Columns without the test on the number of rows
ColumnsAlways(schedule, formatted_dates) == <<NameColumn>> \o formatted_dates

\* columns = ["Name"] + formatted_dates if len(schedule) > 0 else []
Columns(schedule, formatted_dates) ==
    IF Len(schedule) > 0 THEN <<NameColumn>> \o formatted_dates ELSE <<>>

Table(columns, rows) ==
    [kind |-> "table", columns |-> columns, rows |-> rows, exc |-> "", cause |-> ""]

\* Wrapped as a bare raise: the exception leaves with its own type
Reraised(cause) ==
    [kind |-> "raise", columns |-> <<>>, rows |-> <<>>, exc |-> cause, cause |-> ""]

\* except Exception as e: raise ScheduleProcessorError(...) from e
Wrapped(cause) ==
    [kind |-> "raise", columns |-> <<>>, rows |-> <<>>,
     exc |-> "ScheduleProcessorError", cause |-> cause]

\* ScheduleDataProcessor.process_schedule_data on a loader in state ld:
\* the outcome and the loader's state afterwards
process_schedule_data(ld, fs, E) ==
    LET a == get_assignments(ld, fs)
    IN  IF a.exc # "" THEN [outcome |-> Wrapped(a.exc), loader |-> a.loader]
        ELSE
          LET st0 == [exc |-> "", loader |-> a.loader, dates |-> {},
                      worker_date |-> <<>>, position_worker |-> <<>>, position_date |-> <<>>]
              st  == Loop(st0, fs, E, a.value, 1)
          IN  IF st.exc # "" THEN [outcome |-> Wrapped(st.exc), loader |-> st.loader]
              ELSE
                LET dates == SortedStrs(st.dates)
                    sorted_positions == SortedPositions(DOMAIN st.position_worker, E)
                    em == PositionRows([exc |-> "", loader |-> st.loader, schedule |-> <<>>],
                                       fs, E, st, dates, sorted_positions, 1)
                IN  IF em.exc # "" THEN [outcome |-> Wrapped(em.exc), loader |-> em.loader]
                    ELSE IF \E k \in 1..Len(dates) : _format_date(dates[k]).exc # ""
                         THEN [outcome |-> Wrapped("ScheduleProcessorError"), loader |-> em.loader]
                    ELSE
                      LET formatted_dates == [k \in 1..Len(dates) |-> _format_date(dates[k]).value]
                          columns == Columns(em.schedule, formatted_dates)
                      IN  [outcome |-> Table(columns, em.schedule), loader |-> em.loader]

(***************************************************************************)
(* services.py and views.py                                                *)
(***************************************************************************)
\* _get_data_loader without the test of the global: a DataLoader is created
\* on every call
_get_data_loader_fresh(dl) == IF dl = None THEN Some(1) ELSE Some(2)

\* services._get_data_loader: the new value of _data_loader, which is also
\* what the call returns; instance n is the n-th DataLoader created
_get_data_loader(dl) == IF dl = None THEN Some(1) ELSE dl

\* services._get_processor: the new values of the two globals
_get_processor(dl, pr) ==
    IF pr = None
    THEN [_data_loader |-> _get_data_loader(dl),
          _processor   |-> Some([id |-> 1, data_loader |-> _get_data_loader(dl)[1]])]
    ELSE [_data_loader |-> dl, _processor |-> pr]

\* services.get_schedule_data: DataLoaderError and ScheduleProcessorError are
\* logged and re-raised, anything else propagates untouched
get_schedule_data(ld, fs, E) == process_schedule_data(ld, fs, E)

\* the body of a successful Response
Body(columns, rows) == [columns |-> columns, rows |-> rows]

\* no request answered yet
NoResponse ==
    [status |-> 0, code |-> "", error |-> "", detail |-> <<>>, data |-> Body(<<>>, <<>>)]

ErrorResponse(code, error, detail) ==
    [status |-> 500, code |-> code, error |-> error, detail |-> detail,
     data |-> Body(<<>>, <<>>)]

\* str(e): the text of an exception, kept as its type and the type of its cause
StrOf(outcome) == <<outcome.exc, outcome.cause>>

\* schedule_table with str(e) as the detail of the last except clause
schedule_table_leaking(outcome) ==
    CASE outcome.kind = "table" ->
           [status |-> 200, code |-> "", error |-> "", detail |-> <<>>,
            data |-> Body(outcome.columns, outcome.rows)]
      [] outcome.kind = "raise" /\ outcome.exc = "DataLoaderError" ->
           ErrorResponse("DATA_LOAD_ERROR", "Failed to load data from JSON files",
                         StrOf(outcome))
      [] outcome.kind = "raise" /\ outcome.exc = "ScheduleProcessorError" ->
           ErrorResponse("PROCESSING_ERROR", "Failed to process schedule data",
                         StrOf(outcome))
      [] OTHER ->
           ErrorResponse("INTERNAL_ERROR", "Internal server error", StrOf(outcome))

\* views.schedule_table: the Response for an outcome of get_schedule_data
schedule_table(outcome) ==
    CASE outcome.kind = "table" ->
           [status |-> 200, code |-> "", error |-> "", detail |-> <<>>,
            data |-> Body(outcome.columns, outcome.rows)]
      [] outcome.kind = "raise" /\ outcome.exc = "DataLoaderError" ->
           ErrorResponse("DATA_LOAD_ERROR", "Failed to load data from JSON files",
                         StrOf(outcome))
      [] outcome.kind = "raise" /\ outcome.exc = "ScheduleProcessorError" ->
           ErrorResponse("PROCESSING_ERROR", "Failed to process schedule data",
                         StrOf(outcome))
      [] OTHER ->
           ErrorResponse("INTERNAL_ERROR", "Internal server error",
                         <<"An unexpected error occurred">>)

\* an exception of type exc built with a message: the message takes the
\* place the cause has in a wrapped exception, so that StrOf gives its text
Exception(exc, message) ==
    [kind |-> "raise", columns |-> <<>>, rows |-> <<>>, exc |-> exc, cause |-> message]

(***************************************************************************)
(* Data files                                                              *)
(***************************************************************************)
ListFile(data) == [kind |-> "list", data |-> data]

FaultKinds == {"missing", "unreadable", "invalid_json", "not_list", "bad_encoding"}

FaultFile(kind) == [kind |-> kind, data |-> <<>>]

Dash == <<"-">>

D_2025_01_15 == <<"2", "0", "2", "5">> \o Dash \o <<"0", "1">> \o Dash \o <<"1", "5">>
D_2025_01_16 == <<"2", "0", "2", "5">> \o Dash \o <<"0", "1">> \o Dash \o <<"1", "6">>
D_2025_1_5   == <<"2", "0", "2", "5">> \o Dash \o <<"1">> \o Dash \o <<"5">>
D_invalid    == <<"i", "n", "v", "a", "l", "i", "d", "-", "d", "a", "t", "e">>

Positions ==
    <<[id |-> 1, name |-> "Manager"], [id |-> 2, name |-> "Developer"]>>

\* worker ids 1 and 9 fall into the same slot of a set
Workers ==
    <<[id |-> 1, name |-> "Alice", position_id |-> Some(1)],
      [id |-> 2, name |-> "Bob",   position_id |-> Some(2)],
      [id |-> 9, name |-> "Carol", position_id |-> Some(2)]>>

\* task 4 has no position, task 5 a position without record, task 6 an
\* unparseable date, task 7 a date without zero padding
Tasks ==
    <<[id |-> 1, position_id |-> Some(1), duration |-> 4, date |-> D_2025_01_15],
      [id |-> 2, position_id |-> Some(2), duration |-> 6, date |-> D_2025_01_15],
      [id |-> 3, position_id |-> Some(2), duration |-> 3, date |-> D_2025_01_16],
      [id |-> 4, position_id |-> None,    duration |-> 5, date |-> D_2025_01_15],
      [id |-> 5, position_id |-> Some(3), duration |-> 2, date |-> D_2025_01_16],
      [id |-> 6, position_id |-> Some(1), duration |-> 1, date |-> D_invalid],
      [id |-> 7, position_id |-> Some(2), duration |-> 2, date |-> D_2025_1_5]>>

Asg(t, w) == [task_id |-> t, worker_id |-> w]

\* task 8 and worker 4 have no record
AssignmentPool ==
    {Asg(1, 1), Asg(2, 1), Asg(2, 9), Asg(3, 9), Asg(4, 2), Asg(5, 2), Asg(6, 1),
     Asg(8, 1), Asg(1, 4)}

ServicePool == {Asg(1, 1), Asg(2, 1), Asg(2, 9), Asg(4, 2), Asg(6, 1)}

SeqsUpTo(S, n) == UNION {[1..k -> S] : k \in 0..n}

Snapshot(positions, workers, tasks, assignments) ==
    [positions |-> positions, workers |-> workers, tasks |-> tasks, assignments |-> assignments]

GoodSnapshot(assignments) ==
    Snapshot(ListFile(Positions), ListFile(Workers), ListFile(Tasks), ListFile(assignments))

\* a list with one record that lacks the key the lookup dictionary is built on
BadRecordFile(f) ==
    CASE f = "positions"   -> ListFile(Append(Positions, [name |-> "Welder"]))
      [] f = "workers"     -> ListFile(Append(Workers, [name |-> "Dave", position_id |-> None]))
      [] f = "tasks"       -> ListFile(Append(Tasks, [position_id |-> None, duration |-> 1,
                                                      date |-> D_2025_01_15]))
      [] f = "assignments" -> ListFile(<<Asg(1, 1), [worker_id |-> 2]>>)

FileNames == {"positions", "workers", "tasks", "assignments"}

\* a list with a record that has its key but lacks another field the
\* processor reads: the name of position 1, the name of worker 1, the
\* duration of task 1, the worker_id of the assignment of task 1
IncompleteFile(f) ==
    CASE f = "positions"   -> ListFile(<<[id |-> 1], Positions[2]>>)
      [] f = "workers"     -> ListFile(<<[id |-> 1, position_id |-> Some(1)], Workers[2], Workers[3]>>)
      [] f = "tasks"       -> ListFile(<<[id |-> 1, position_id |-> Some(1), date |-> D_2025_01_15],
                                         Tasks[2]>>)
      [] f = "assignments" -> ListFile(<<[task_id |-> 1]>>)

\* the assignment lists of a computation that runs beside refresh_cache
RaceAssignments ==
    {<<>>, <<Asg(1, 1)>>, <<Asg(1, 1), Asg(2, 1)>>, <<Asg(4, 2), Asg(2, 9)>>, <<Asg(8, 1)>>}

\* the two contents a file has over time
FileContents(f) ==
    CASE f = "positions"   -> {Positions, [Positions EXCEPT ![1].name = "Lead"]}
      [] f = "workers"     -> {Workers, [Workers EXCEPT ![1].name = "Alicia"]}
      [] f = "tasks"       -> {Tasks, [Tasks EXCEPT ![1].duration = 8]}
      [] f = "assignments" -> {<<Asg(1, 1)>>, <<Asg(1, 1), Asg(2, 9)>>}

\* ids looked up: 1 has a record in every file, 8 in none
LookupIds == {1, 8}

\* the files the threads find
LoaderSnapshots ==
    {GoodSnapshot(<<Asg(1, 1)>>),
     [GoodSnapshot(<<Asg(1, 1)>>) EXCEPT !.positions = BadRecordFile("positions")],
     [GoodSnapshot(<<Asg(1, 1)>>) EXCEPT !.tasks = FaultFile("missing")]}

\* snapshots in which exactly one file is faulty
FaultySnapshots ==
    UNION {{[GoodSnapshot(a) EXCEPT ![f] = bad] :
               a \in {<<>>, <<Asg(1, 1)>>, <<Asg(4, 2)>>},
               bad \in {FaultFile(k) : k \in FaultKinds}
                           \cup {BadRecordFile(f), IncompleteFile(f)}} :
           f \in FileNames}

\* what get_schedule_data is made to do when the view is tested with
\* get_schedule_data patched (test_api_views.py 36-70): return a table, or
\* raise an exception of some type with some message
PatchedTypes ==
    {"DataLoaderError", "ScheduleProcessorError", "ValueError", "KeyError", "RuntimeError"}

PatchedMessages == {"Test data loading error", "Test processing error", "Unexpected error"}

PatchedOutcomes ==
    {Table(<<>>, <<>>),
     Table(<<NameColumn, date_format(strptime(D_2025_01_15))>>, <<<<"Manager", 4>>, <<"Alice", 4>>>>)}
    \cup {Exception(exc, message) : exc \in PatchedTypes, message \in PatchedMessages}

\* the files behind the view
ViewSnapshots ==
    {GoodSnapshot(<<>>), GoodSnapshot(<<Asg(1, 1), Asg(4, 2)>>),
     [GoodSnapshot(<<Asg(1, 1)>>) EXCEPT !.tasks = FaultFile("missing")],
     [GoodSnapshot(<<Asg(1, 1)>>) EXCEPT !.workers = FaultFile("bad_encoding")]}

\* date strings: year, month and day fields joined by "-", and some strings
\* of another shape
YearStrs == {<<"2", "0", "2", "5">>, <<"2", "0", "2", "4">>, <<"0", "0", "0", "0">>}

MonthStrs == {<<"0", "1">>, <<"1">>, <<"0", "2">>, <<"2">>, <<"1", "2">>, <<"1", "3">>,
              <<"0", "0">>, <<"0">>}

DayStrs == {<<"0", "5">>, <<"5">>, <<"1", "5">>, <<"2", "9">>, <<"3", "0">>, <<"3", "1">>,
            <<"3", "2">>, <<"0", "0">>}

DateStrings ==
    {y \o Dash \o m \o Dash \o d : y \in YearStrs, m \in MonthStrs, d \in DayStrs}
    \cup {D_invalid,
          <<"2", "0", "2", "5">> \o Dash \o <<"0", "1">>,
          <<"2", "0", "2", "5", "0", "1", "1", "5">>,
          <<"2", "5">> \o Dash \o <<"0", "1">> \o Dash \o <<"1", "5">>,
          D_2025_01_15 \o Dash,
          <<>>}

\* tasks.json with task 1 dated s and task 2 as in Tasks
DatedTasks(s) == <<[Tasks[1] EXCEPT !.date = s], Tasks[2]>>

DatedSnapshots ==
    {Snapshot(ListFile(Positions), ListFile(Workers), ListFile(DatedTasks(s)), ListFile(a)) :
        s \in DateStrings,
        a \in {<<Asg(1, 1)>>, <<Asg(2, 2), Asg(1, 1)>>, <<Asg(2, 2)>>}}

(***************************************************************************)
(* Initial states                                                          *)
(***************************************************************************)
NotFormatted == [arg |-> None, exc |-> "", value |-> <<>>]

\* no call made on the loader yet
NotLoaded == [op |-> "", file |-> "", arg |-> 0, exc |-> "", value |-> None]

\* the locals of process_schedule_data while it runs in a thread; phase
\* names the loader call it waits for
NoFrame ==
    [phase |-> "none", assignments |-> <<>>, i |-> 0, date |-> <<>>, dates |-> {},
     worker_date |-> <<>>, position_worker |-> <<>>, position_date |-> <<>>,
     sorted_dates |-> <<>>, sorted_positions |-> <<>>, k |-> 0, workers |-> <<>>, j |-> 0,
     schedule |-> <<>>]

\* a thread that runs no method of the loader
Idle ==
    [op |-> "", file |-> "", arg |-> 0, pc |-> "idle", data |-> <<>>, k |-> 0,
     exc |-> "", value |-> None, n |-> 0, frame |-> NoFrame]

NoReads == [f \in FileNames |-> 0]

InitRest ==
    /\ EMPTY_POSITION_ID \in EmptyPositionIds
    /\ loader = NewLoader
    /\ _data_loader = None
    /\ _processor = None
    /\ calls = <<>>
    /\ response = NoResponse
    /\ formatted = NotFormatted
    /\ loaded = NotLoaded
    /\ threads = [t \in Threads |-> Idle]
    /\ reads = NoReads
    /\ refreshed = FALSE

\* the service: short assignment lists over valid files, and faulty files
Init ==
    /\ files \in {GoodSnapshot(a) : a \in SeqsUpTo(ServicePool, MaxServiceAssignments)}
                    \cup FaultySnapshots
    /\ InitRest

\* the table: valid files, every assignment list over the pool
InitTable ==
    /\ files \in {GoodSnapshot(a) : a \in SeqsUpTo(AssignmentPool, MaxAssignments)}
    /\ InitRest

\* the loader shared by the threads: valid files, and files with a faulty record
InitLoader ==
    /\ files \in LoaderSnapshots
    /\ InitRest

\* the cache of the loader over files that are rewritten
InitCache ==
    /\ files = GoodSnapshot(<<Asg(1, 1)>>)
    /\ InitRest

\* a computation and refresh_cache in two threads: valid files
InitRace ==
    /\ files \in {GoodSnapshot(a) : a \in RaceAssignments}
    /\ InitRest

\* the view over the service, and over a patched get_schedule_data
InitView ==
    /\ files \in ViewSnapshots
    /\ InitRest

\* the dates: one task with each date string
InitDates ==
    /\ files \in DatedSnapshots
    /\ InitRest

(***************************************************************************)
(* Actions                                                                 *)
(***************************************************************************)
\* the outcomes of the last two calls
Push(cs, outcome) == IF Len(cs) < 2 THEN Append(cs, outcome) ELSE <<cs[2], outcome>>

\* processor.process_schedule_data() on a processor built on the loader
ProcessScheduleData ==
    /\ \E r \in {process_schedule_data(loader, files, EMPTY_POSITION_ID)} :
          /\ loader' = r.loader
          /\ calls' = Push(calls, r.outcome)
          /\ reads' = CountReads(reads, loader, r.loader)
    /\ UNCHANGED <<files, EMPTY_POSITION_ID, _data_loader, _processor, response, formatted>>
    /\ UNCHANGED <<loaded, threads, refreshed>>

\* processor._format_date(s) for the date string of a task on file
FormatDate ==
    /\ files.tasks.kind = "list"
    /\ \E i \in DOMAIN files.tasks.data :
          /\ HasKey(files.tasks.data[i], "date")
          /\ LET s == files.tasks.data[i].date
                 r == _format_date(s)
             IN  formatted' = [arg |-> Some(s), exc |-> r.exc, value |-> r.value]
    /\ UNCHANGED <<files, EMPTY_POSITION_ID, loader, _data_loader, _processor, calls, response>>
    /\ UNCHANGED <<loaded, threads, reads, refreshed>>

\* services._get_data_loader()
GetDataLoader ==
    /\ _data_loader' = _get_data_loader(_data_loader)
    /\ UNCHANGED <<files, EMPTY_POSITION_ID, loader, _processor, calls, response, formatted>>
    /\ UNCHANGED <<loaded, threads, reads, refreshed>>

\* services._get_processor()
GetProcessor ==
    /\ _data_loader' = _get_processor(_data_loader, _processor)._data_loader
    /\ _processor' = _get_processor(_data_loader, _processor)._processor
    /\ UNCHANGED <<files, EMPTY_POSITION_ID, loader, calls, response, formatted>>
    /\ UNCHANGED <<loaded, threads, reads, refreshed>>

\* services.get_schedule_data()
GetScheduleData ==
    /\ \E r \in {get_schedule_data(loader, files, EMPTY_POSITION_ID)} :
          /\ loader' = r.loader
          /\ calls' = Push(calls, r.outcome)
          /\ reads' = CountReads(reads, loader, r.loader)
    /\ _data_loader' = _get_processor(_data_loader, _processor)._data_loader
    /\ _processor' = _get_processor(_data_loader, _processor)._processor
    /\ UNCHANGED <<files, EMPTY_POSITION_ID, response, formatted>>
    /\ UNCHANGED <<loaded, threads, refreshed>>

\* GET on the schedule_table endpoint
ScheduleTable ==
    /\ \E r \in {get_schedule_data(loader, files, EMPTY_POSITION_ID)} :
          /\ loader' = r.loader
          /\ calls' = Push(calls, r.outcome)
          /\ response' = schedule_table(r.outcome)
          /\ reads' = CountReads(reads, loader, r.loader)
    /\ _data_loader' = _get_processor(_data_loader, _processor)._data_loader
    /\ _processor' = _get_processor(_data_loader, _processor)._processor
    /\ UNCHANGED <<files, EMPTY_POSITION_ID, formatted>>
    /\ UNCHANGED <<loaded, threads, refreshed>>

\* GET on the schedule_table endpoint while scheduler.views.get_schedule_data
\* is patched: the service and the loader are not called
ScheduleTablePatched ==
    /\ \E outcome \in PatchedOutcomes :
          /\ calls' = Push(calls, outcome)
          /\ response' = schedule_table(outcome)
    /\ UNCHANGED <<files, EMPTY_POSITION_ID, loader, _data_loader, _processor, formatted>>
    /\ UNCHANGED <<loaded, threads, reads, refreshed>>

\* _get_data_loader().get_positions(), get_workers(), get_tasks(), get_assignments()
LoaderGet ==
    /\ \E f \in FileNames :
          \E r \in {LoadAndCache(loader, files[f], ListField(f), DictField(f), KeyOf(f))} :
             /\ loader' = r.loader
             /\ loaded' = [op |-> "get", file |-> f, arg |-> 0, exc |-> r.exc,
                           value |-> IF r.exc = "" THEN r.value ELSE <<>>]
             /\ reads' = CountReads(reads, loader, r.loader)
    /\ _data_loader' = _get_data_loader(_data_loader)
    /\ UNCHANGED <<files, EMPTY_POSITION_ID, _processor, calls, response, formatted>>
    /\ UNCHANGED <<threads, refreshed>>

\* _get_data_loader().refresh_cache()
RefreshCache ==
    /\ loader' = refresh_cache(loader)
    /\ _data_loader' = _get_data_loader(_data_loader)
    /\ calls' = <<>>
    /\ reads' = NoReads
    /\ refreshed' = TRUE
    /\ loaded' = [NotLoaded EXCEPT !.op = "refresh_cache"]
    /\ UNCHANGED <<files, EMPTY_POSITION_ID, _processor, response, formatted>>
    /\ UNCHANGED threads

\* _get_data_loader().get_position_by_id(id), get_worker_by_id(id),
\* get_task_by_id(id), get_assignment_by_task_id(id)
LoaderGetById ==
    /\ \E f \in FileNames, id \in LookupIds :
          \E r \in {LookupById(IF loader[DictField(f)] = None
                                THEN LoadAndCache(loader, files[f], ListField(f), DictField(f),
                                                  KeyOf(f))
                                ELSE NoCall(loader),
                                DictField(f), id)} :
             /\ loader' = r.loader
             /\ loaded' = [op |-> "get_by_id", file |-> f, arg |-> id, exc |-> r.exc,
                           value |-> r.value]
             /\ reads' = CountReads(reads, loader, r.loader)
    /\ _data_loader' = _get_data_loader(_data_loader)
    /\ UNCHANGED <<files, EMPTY_POSITION_ID, _processor, calls, response, formatted>>
    /\ UNCHANGED <<threads, refreshed>>

\* a data file is rewritten with other content while the server runs
ChangeFile ==
    /\ \E f \in FileNames : \E content \in FileContents(f) :
          /\ files[f] # ListFile(content)
          /\ files' = [files EXCEPT ![f] = ListFile(content)]
          /\ loaded' = [NotLoaded EXCEPT !.op = "write", !.file = f]
    /\ UNCHANGED <<EMPTY_POSITION_ID, loader, _data_loader, _processor, calls, response,
                   formatted>>
    /\ UNCHANGED <<threads, reads, refreshed>>

(***************************************************************************)
(* The DataLoader called from several threads.  The loader holds no lock,  *)
(* so the threads interleave between the statements of its methods: each   *)
(* action below is one statement, which reads or writes the attributes of  *)
(* the loader once.                                                        *)
(***************************************************************************)
otherVars == <<files, EMPTY_POSITION_ID, _data_loader, _processor, calls, response, formatted,
               loaded>>

CanCall(t) ==
    /\ threads[t].pc \in {"idle", "done"}
    /\ threads[t].frame.phase = "none"
    /\ threads[t].n < MaxLoaderCalls

\* the thread enters a method
Enter(th, op, file, arg, pc) ==
    [Idle EXCEPT !.op = op, !.file = file, !.arg = arg, !.pc = pc, !.n = th.n + 1]

\* the method returns value to the thread's caller
Leave(th, value) ==
    [Idle EXCEPT !.op = th.op, !.file = th.file, !.arg = th.arg, !.pc = "done",
                 !.value = value, !.n = th.n, !.frame = th.frame]

\* the method raises exc to the thread's caller
LeaveRaising(th, exc) ==
    [Idle EXCEPT !.op = th.op, !.file = th.file, !.arg = th.arg, !.pc = "done",
                 !.exc = exc, !.n = th.n, !.frame = th.frame]

\* a thread calls get_positions(), get_workers(), get_tasks() or get_assignments()
CallGet(t) ==
    /\ CanCall(t)
    /\ \E f \in FileNames :
          threads' = [threads EXCEPT ![t] = Enter(@, "get", f, 0, "check")]
    /\ UNCHANGED <<loader, reads, refreshed, otherVars>>

\* a thread calls get_position_by_id(id), get_worker_by_id(id),
\* get_task_by_id(id) or get_assignment_by_task_id(id)
CallGetById(t) ==
    /\ CanCall(t)
    /\ \E f \in FileNames, id \in LookupIds :
          threads' = [threads EXCEPT ![t] = Enter(@, "get_by_id", f, id, "by_id_check")]
    /\ UNCHANGED <<loader, reads, refreshed, otherVars>>

\* a thread calls refresh_cache()
CallRefreshCache(t) ==
    /\ CanCall(t)
    /\ threads' = [threads EXCEPT ![t] = [Enter(@, "refresh_cache", "", 0, "clear") EXCEPT !.k = 1]]
    /\ reads' = NoReads
    /\ refreshed' = TRUE
    /\ UNCHANGED <<loader, otherVars>>

\* if self._positions is None:  (loaders.py 79, 99, 119, 139)
CheckList(t) ==
    /\ threads[t].pc = "check"
    /\ threads' = [threads EXCEPT ![t].pc =
                      IF loader[ListField(threads[t].file)] = None THEN "load" ELSE "return"]
    /\ UNCHANGED <<loader, reads, refreshed, otherVars>>

\* data = self._load_json_file(...)  (loaders.py 81, 101, 121, 141)
LoadFile(t) ==
    /\ threads[t].pc = "load"
    /\ LET r == _load_json_file(files[threads[t].file])
       IN  threads' = [threads EXCEPT ![t] =
                          IF r.exc # "" THEN LeaveRaising(@, r.exc)
                          ELSE [@ EXCEPT !.pc = "set_list", !.data = r.data]]
    /\ UNCHANGED <<loader, reads, refreshed, otherVars>>

\* self._positions = data  (loaders.py 82, 102, 122, 142)
SetList(t) ==
    /\ threads[t].pc = "set_list"
    /\ loader' = [loader EXCEPT ![ListField(threads[t].file)] = Some(threads[t].data)]
    /\ reads' = [reads EXCEPT ![threads[t].file] = @ + 1]
    /\ threads' = [threads EXCEPT ![t].pc = "set_dict"]
    /\ UNCHANGED <<refreshed, otherVars>>

\* self._positions_by_id = {pos["id"]: pos for pos in data}, with the except
\* clause around it  (loaders.py 84-87, 104-107, 124-127, 144-147)
SetDict(t) ==
    /\ threads[t].pc = "set_dict"
    /\ LET f    == threads[t].file
           data == threads[t].data
       IN  IF \E i \in DOMAIN data : ~HasKey(data[i], KeyOf(f))
           THEN /\ threads' = [threads EXCEPT ![t] = LeaveRaising(@, "DataLoaderError")]
                /\ UNCHANGED loader
           ELSE /\ loader' = [loader EXCEPT ![DictField(f)] = Some(ById(data, KeyOf(f)))]
                /\ threads' = [threads EXCEPT ![t].pc = "return", ![t].data = <<>>]
    /\ UNCHANGED <<reads, refreshed, otherVars>>

\* return self._positions  (loaders.py 89, 109, 129, 149); get_*_by_id drops
\* the value and goes on
ReturnList(t) ==
    /\ threads[t].pc = "return"
    /\ threads' = [threads EXCEPT ![t] =
                      IF @.op = "get" THEN Leave(@, loader[ListField(@.file)])
                      ELSE [@ EXCEPT !.pc = "by_id_get"]]
    /\ UNCHANGED <<loader, reads, refreshed, otherVars>>

\* if self._positions_by_id is None: self.get_positions()
\* (loaders.py 93-94, 113-114, 133-134, 153-154)
CheckDict(t) ==
    /\ threads[t].pc = "by_id_check"
    /\ threads' = [threads EXCEPT ![t].pc =
                      IF loader[DictField(threads[t].file)] = None THEN "check" ELSE "by_id_get"]
    /\ UNCHANGED <<loader, reads, refreshed, otherVars>>

\* return self._positions_by_id.get(position_id)  (loaders.py 95, 115, 135, 155)
GetById(t) ==
    /\ threads[t].pc = "by_id_get"
    /\ LET d == loader[DictField(threads[t].file)]
       IN  threads' = [threads EXCEPT ![t] =
                          IF d = None THEN LeaveRaising(@, "AttributeError")
                          ELSE Leave(@, IF @.arg \in DOMAIN d[1] THEN Some(d[1][@.arg]) ELSE None)]
    /\ UNCHANGED <<loader, reads, refreshed, otherVars>>

\* self._positions = None .. self._assignments_by_task_id = None, one
\* assignment at a time  (loaders.py 159-167)
ClearField(t) ==
    /\ threads[t].pc = "clear"
    /\ loader' = [loader EXCEPT ![RefreshFields[threads[t].k]] = None]
    /\ threads' = [threads EXCEPT ![t] =
                      IF @.k = Len(RefreshFields) THEN Leave(@, None)
                      ELSE [@ EXCEPT !.k = @ + 1]]
    /\ UNCHANGED <<reads, refreshed, otherVars>>

(***************************************************************************)
(* process_schedule_data in a thread: between two calls of the loader it   *)
(* touches only its locals, so one step runs it from the return of one     *)
(* loader call to the entry of the next.                                   *)
(***************************************************************************)
\* the computation goes on with a call of the loader
Going(fr, op, file, arg) ==
    [frame |-> fr, done |-> FALSE, exc |-> "", call |-> [op |-> op, file |-> file, arg |-> arg]]

\* the computation leaves the try block: by an exception, or at the return
Ending(fr, exc) ==
    [frame |-> fr, done |-> TRUE, exc |-> exc, call |-> [op |-> "", file |-> "", arg |-> 0]]

RECURSIVE NextPosition(_, _)
\* for worker_id in position_worker[position_id]:  (processors.py 99-102)
RECURSIVE NextWorker(_, _)
NextWorker(fr, E) ==
    IF fr.j > Len(fr.workers) THEN NextPosition([fr EXCEPT !.k = @ + 1], E)
    ELSE Going([fr EXCEPT !.phase = "worker"], "get_by_id", "workers", fr.workers[fr.j])

\* position_row = [position_name] + [...]; schedule.append(position_row)
\* (processors.py 96-97)
PositionRow(fr, position_name) ==
    LET position_id == fr.sorted_positions[fr.k]
    IN  [fr EXCEPT
           !.schedule = Append(@, <<position_name>>
                                     \o RowValues(fr.position_date, position_id, fr.sorted_dates)),
           !.workers  = SetIter(fr.position_worker[position_id], 0),
           !.j        = 1]

\* for position_id in sorted_positions:  (processors.py 88-94)
NextPosition(fr, E) ==
    IF fr.k > Len(fr.sorted_positions) THEN Ending(fr, "")
    ELSE IF fr.sorted_positions[fr.k] = E
         THEN NextWorker(PositionRow(fr, EMPTY_POSITION_NAME), E)
         ELSE Going([fr EXCEPT !.phase = "position"], "get_by_id", "positions",
                    fr.sorted_positions[fr.k])

\* for assignment in assignments:  (processors.py 60-61), and after the
\* loop the two sorts (82-86)
NextAssignment(fr, E) ==
    IF fr.i > Len(fr.assignments)
    THEN NextPosition([fr EXCEPT !.sorted_dates     = SortedStrs(fr.dates),
                                 !.sorted_positions = SortedPositions(DOMAIN fr.position_worker, E),
                                 !.k                = 1], E)
    ELSE IF ~HasKey(fr.assignments[fr.i], "task_id") THEN Ending(fr, "KeyError")
    ELSE Going([fr EXCEPT !.phase = "task_date"], "get_by_id", "tasks",
               fr.assignments[fr.i].task_id)

\* the computation takes the outcome r of the loader call it waited for and
\* runs to its next loader call or to its end  (processors.py 52-102)
Resume(fr, r, E) ==
    IF r.exc # "" THEN Ending(fr, r.exc)
    ELSE IF r.value = None THEN Ending(fr, "TypeError")
    ELSE
      LET v == r.value[1]
      IN  CASE fr.phase = "assignments" ->
                 NextAssignment([fr EXCEPT !.assignments = v, !.i = 1], E)
            [] fr.phase = "task_date" ->
                 IF ~HasKey(v, "date") \/ ~HasKey(fr.assignments[fr.i], "worker_id")
                 THEN Ending(fr, "KeyError")
                 ELSE Going([fr EXCEPT !.phase = "task", !.date = v.date], "get_by_id", "tasks",
                            fr.assignments[fr.i].task_id)
            [] fr.phase = "task" ->
                 IF ~HasKey(v, "duration") \/ ~HasKey(v, "position_id")
                 THEN Ending(fr, "KeyError")
                 ELSE
                   LET worker_id   == fr.assignments[fr.i].worker_id
                       position_id == IF v.position_id # None THEN v.position_id[1] ELSE E
                   IN  NextAssignment(
                          [fr EXCEPT
                             !.worker_date     = AddTo(@, <<worker_id, fr.date>>, v.duration),
                             !.dates           = @ \cup {fr.date},
                             !.position_worker = AddWorker(@, position_id, worker_id),
                             !.position_date   = AddTo(@, <<position_id, fr.date>>, v.duration),
                             !.i               = @ + 1], E)
            [] fr.phase = "position" ->
                 IF ~HasKey(v, "name") THEN Ending(fr, "KeyError")
                 ELSE NextWorker(PositionRow(fr, v.name), E)
            [] fr.phase = "worker" ->
                 IF ~HasKey(v, "name") THEN Ending(fr, "KeyError")
                 ELSE NextWorker(
                        [fr EXCEPT
                           !.schedule = Append(@, <<v.name>>
                                                     \o RowValues(fr.worker_date, fr.workers[fr.j],
                                                                  fr.sorted_dates)),
                           !.j        = @ + 1], E)

\* what the call returns or raises when the try block is left
\* (processors.py 104-110)
Outcome(fr, exc) ==
    IF exc # "" THEN Wrapped(exc)
    ELSE IF \E k \in 1..Len(fr.sorted_dates) : _format_date(fr.sorted_dates[k]).exc # ""
         THEN Wrapped("ScheduleProcessorError")
    ELSE Table(Columns(fr.schedule,
                       [k \in 1..Len(fr.sorted_dates) |-> _format_date(fr.sorted_dates[k]).value]),
               fr.schedule)

\* a thread calls process_schedule_data() and enters get_assignments()
\* (processors.py 52)
CallProcess(t) ==
    /\ CanCall(t)
    /\ calls = <<>>
    /\ \A u \in Threads : threads[u].frame.phase = "none"
    /\ threads' = [threads EXCEPT ![t] =
                      [Enter(@, "get", "assignments", 0, "check") EXCEPT
                          !.frame = [NoFrame EXCEPT !.phase = "assignments"]]]
    /\ UNCHANGED <<loader, reads, refreshed, otherVars>>

\* the loader call has returned or raised: process_schedule_data goes on to
\* its next loader call, or ends
Continue(t) ==
    /\ threads[t].pc = "done"
    /\ threads[t].frame.phase # "none"
    /\ \E res \in {Resume(threads[t].frame, [exc |-> threads[t].exc, value |-> threads[t].value],
                           EMPTY_POSITION_ID)} :
          IF res.done
          THEN /\ threads' = [threads EXCEPT ![t] =
                                 [Idle EXCEPT !.op = "process_schedule_data", !.pc = "done",
                                              !.n = threads[t].n]]
               /\ calls' = Push(calls, Outcome(res.frame, res.exc))
          ELSE /\ threads' = [threads EXCEPT ![t] =
                                 [Idle EXCEPT !.op = res.call.op, !.file = res.call.file,
                                              !.arg = res.call.arg,
                                              !.pc = IF res.call.op = "get" THEN "check"
                                                     ELSE "by_id_check",
                                              !.n = threads[t].n, !.frame = res.frame]]
               /\ UNCHANGED calls
    /\ UNCHANGED <<loader, reads, refreshed>>
    /\ UNCHANGED <<files, EMPTY_POSITION_ID, _data_loader, _processor, response, formatted,
                   loaded>>

NextRace ==
    \E t \in Threads :
       \/ CallProcess(t)
       \/ Continue(t)
       \/ CallRefreshCache(t)
       \/ CheckList(t)
       \/ LoadFile(t)
       \/ SetList(t)
       \/ SetDict(t)
       \/ ReturnList(t)
       \/ CheckDict(t)
       \/ GetById(t)
       \/ ClearField(t)

SpecRace == InitRace /\ [][NextRace]_vars

NextLoader ==
    \E t \in Threads :
       \/ CallGet(t)
       \/ CallGetById(t)
       \/ CallRefreshCache(t)
       \/ CheckList(t)
       \/ LoadFile(t)
       \/ SetList(t)
       \/ SetDict(t)
       \/ ReturnList(t)
       \/ CheckDict(t)
       \/ GetById(t)
       \/ ClearField(t)

SpecLoader == InitLoader /\ [][NextLoader]_vars

Next ==
    \/ ScheduleTable
    \/ GetScheduleData
    \/ GetDataLoader
    \/ GetProcessor
    \/ LoaderGet
    \/ RefreshCache

Spec == Init /\ [][Next]_vars

\* the table specification applies process_schedule_data once, to a new loader
FirstCall == calls = <<>> /\ ProcessScheduleData

NextTable == FirstCall

SpecTable == InitTable /\ [][NextTable]_vars

NextCache == LoaderGet \/ LoaderGetById \/ RefreshCache \/ ChangeFile

SpecCache == InitCache /\ [][NextCache]_vars

NextView == ScheduleTable \/ ScheduleTablePatched

SpecView == InitView /\ [][NextView]_vars

NextDates == ProcessScheduleData \/ FormatDate

SpecDates == InitDates /\ [][NextDates]_vars

(***************************************************************************)
(* Reading the input and the returned table                                *)
(***************************************************************************)
Called == calls # <<>>

\* the outcome of the last process_schedule_data call
Last == calls[Len(calls)]

Returned == Called /\ Last.kind = "table"

Raised == Called /\ Last.kind = "raise"

\* the assignments, tasks, workers and positions on file
Assignments == files.assignments.data

TaskIds == {files.tasks.data[i].id : i \in DOMAIN files.tasks.data}

WorkerIds == {files.workers.data[i].id : i \in DOMAIN files.workers.data}

PositionIds == {files.positions.data[i].id : i \in DOMAIN files.positions.data}

TaskOf(task_id) ==
    files.tasks.data[CHOOSE i \in DOMAIN files.tasks.data : files.tasks.data[i].id = task_id]

WorkerNamed(name) ==
    files.workers.data[CHOOSE i \in DOMAIN files.workers.data : files.workers.data[i].name = name]

\* the position a task counts for
EffectivePosition(task) ==
    IF task.position_id = None THEN EMPTY_POSITION_ID ELSE task.position_id[1]

\* the position a position row stands for
PositionNamed(name) ==
    IF name = EMPTY_POSITION_NAME THEN EMPTY_POSITION_ID
    ELSE files.positions.data[CHOOSE i \in DOMAIN files.positions.data :
                                 files.positions.data[i].name = name].id

PositionNames ==
    {files.positions.data[i].name : i \in DOMAIN files.positions.data} \cup {EMPTY_POSITION_NAME}

\* every assignment resolves to a task, a worker and a position
Resolves(a) ==
    /\ a.task_id \in TaskIds
    /\ a.worker_id \in WorkerIds
    /\ \/ TaskOf(a.task_id).position_id = None
       \/ TaskOf(a.task_id).position_id[1] \in PositionIds

\* the date strings of the assigned tasks
AssignedDates ==
    {TaskOf(Assignments[i].task_id).date :
        i \in {j \in DOMAIN Assignments : Assignments[j].task_id \in TaskIds}}

IsPositionRow(row) == row[1] \in PositionNames

PositionRowIndexes(rows) == {i \in DOMAIN rows : IsPositionRow(rows[i])}

\* the indexes of the worker rows directly beneath the position row at i
WorkerRowsBeneath(rows, i) ==
    {j \in DOMAIN rows :
        /\ j > i
        /\ \A k \in (i + 1)..j : ~IsPositionRow(rows[k])}

\* the column of the table that carries the date string d
ColumnOf(columns, d) == CHOOSE k \in DOMAIN columns : columns[k] = _format_date(d).value

\* the sum of f[x] over x in S
RECURSIVE SumOver(_, _)
SumOver(S, f) ==
    IF S = {} THEN 0
    ELSE LET x == CHOOSE y \in S : TRUE
         IN  f[x] + SumOver(S \ {x}, f)

\* the hours of the assignments with the indexes in S
Hours(S) == SumOver(S, [i \in S |-> TaskOf(Assignments[i].task_id).duration])

(***************************************************************************)
(* Claims                                                                  *)
(***************************************************************************)

\* C1: in every returned table, for every position row and every date
\* column, the value of the position row equals the sum of the values of
\* the worker rows directly beneath it, also when one worker is assigned
\* tasks of two positions.
C1_Conservation ==
    Returned =>
        \A i \in PositionRowIndexes(Last.rows) :
            \A k \in 2..Len(Last.rows[i]) :
                Last.rows[i][k] =
                    SumOver(WorkerRowsBeneath(Last.rows, i),
                            [j \in WorkerRowsBeneath(Last.rows, i) |-> Last.rows[j][k]])

\* C2: a worker row's cell for date d is the sum of the durations of that
\* worker's assignments to tasks dated d, a position row's cell the sum over
\* the assignments to tasks of that effective position dated d; every
\* assignment counts once, none overwrites another, no assignment gives 0.
C2_Accumulation ==
    Returned =>
        \A r \in DOMAIN Last.rows : \A d \in AssignedDates :
            Last.rows[r][ColumnOf(Last.columns, d)] =
                IF IsPositionRow(Last.rows[r])
                THEN Hours({i \in DOMAIN Assignments :
                              /\ EffectivePosition(TaskOf(Assignments[i].task_id))
                                    = PositionNamed(Last.rows[r][1])
                              /\ TaskOf(Assignments[i].task_id).date = d})
                ELSE Hours({i \in DOMAIN Assignments :
                              /\ Assignments[i].worker_id = WorkerNamed(Last.rows[r][1]).id
                              /\ TaskOf(Assignments[i].task_id).date = d})

\* C2 witness: a table was returned for a list in which two assignments
\* give the same worker hours on the same date, and some worker has a date
\* without hours.
C2_Witness ==
    /\ Returned
    /\ \E i, j \in DOMAIN Assignments :
          /\ i < j
          /\ Assignments[i].worker_id = Assignments[j].worker_id
          /\ TaskOf(Assignments[i].task_id).date = TaskOf(Assignments[j].task_id).date
    /\ \E r \in DOMAIN Last.rows : \E k \in 2..Len(Last.rows[r]) : Last.rows[r][k] = 0

\* the names of the position rows, in row order
PositionRowNames(rows) ==
    LET kept == SelectSeq(rows, IsPositionRow)
    IN  [k \in 1..Len(kept) |-> kept[k][1]]

\* C3: the position groups appear in ascending order of real position id,
\* and the "Empty Position" group, present when an assigned task has no
\* position, is the last group whatever the value of the reserved id.
C3_SentinelOrdering ==
    Returned =>
        LET names == PositionRowNames(Last.rows)
        IN  /\ \A k \in 1..(Len(names) - 1) :
                  /\ names[k] # EMPTY_POSITION_NAME
                  /\ names[k + 1] # EMPTY_POSITION_NAME
                        => PositionNamed(names[k]) < PositionNamed(names[k + 1])
            /\ (\E i \in DOMAIN Assignments : TaskOf(Assignments[i].task_id).position_id = None)
                  => /\ names # <<>>
                     /\ names[Len(names)] = EMPTY_POSITION_NAME

\* C3 witness: a table with two real position groups followed by the
\* Empty Position group, in a build whose reserved id is below the real ids.
C3_Witness ==
    /\ Returned
    /\ PositionRowNames(Last.rows) = <<"Manager", "Developer", EMPTY_POSITION_NAME>>
    /\ EMPTY_POSITION_ID < 1

\* C4: in a returned table with at least one row every row has exactly
\* len(columns) entries: a name and one integer per distinct date among the
\* assigned tasks.
C4_RowShape ==
    Returned /\ Last.rows # <<>> =>
        \A r \in DOMAIN Last.rows :
            /\ Len(Last.rows[r]) = Len(Last.columns)
            /\ Len(Last.rows[r]) = 1 + Cardinality(AssignedDates)
            /\ \A k \in 2..Len(Last.rows[r]) : Last.rows[r][k] \in Nat

\* C4 witness: a table with several rows over two dates in which a row has
\* no hours on one of the dates.
C4_Witness ==
    /\ Returned
    /\ Len(Last.rows) >= 4
    /\ Len(Last.columns) = 3
    /\ \E r \in DOMAIN Last.rows : Last.rows[r][2] = 0 /\ Last.rows[r][3] > 0

\* C5: columns = [] and rows = [] for an empty assignment list; columns
\* starts with "Name" whenever the list is non-empty and a table is
\* returned; columns is empty exactly when rows is empty.
C5_EmptyInput ==
    Returned =>
        /\ Assignments = <<>> => Last.columns = <<>> /\ Last.rows = <<>>
        /\ Assignments # <<>> => Last.columns # <<>> /\ Last.columns[1] = NameColumn
        /\ Last.columns = <<>> <=> Last.rows = <<>>

\* C5 witness: process_schedule_data has returned for an empty list.
C5_Witness == Returned /\ Assignments = <<>> /\ Last.columns = <<>>

\* what a caller sees of an outcome: a table with its columns and rows, or
\* the type of the exception
Seen(outcome) ==
    [kind |-> outcome.kind, columns |-> outcome.columns, rows |-> outcome.rows,
     exc |-> outcome.exc]

\* C6: two process_schedule_data calls on the same loader, with the files
\* unchanged and no refresh_cache in between, return the same columns and
\* the same rows in the same order, also when the first call populates
\* the cache.
C6_Idempotence == Len(calls) = 2 => Seen(calls[1]) = Seen(calls[2])

\* C6 witness: two calls have returned a table of several rows, the first
\* after a refresh or construction of the loader.
C6_Witness ==
    /\ Len(calls) = 2
    /\ calls[1].kind = "table"
    /\ Len(calls[2].rows) >= 3

\* the lists obtained from a list by exchanging two of its entries; every
\* permutation of a list is reached by a chain of such exchanges, and every
\* list of the chain is itself an input of the table specification
Exchanges(list) ==
    {[k \in DOMAIN list |-> IF k = i THEN list[j] ELSE IF k = j THEN list[i] ELSE list[k]] :
        i \in DOMAIN list, j \in DOMAIN list}

\* the worker rows of every position group, as a set per position row
GroupSets(rows) ==
    [i \in PositionRowIndexes(rows) |->
        [position |-> rows[i], workers |-> {rows[j] : j \in WorkerRowsBeneath(rows, i)}]]

\* C7: a permutation of the assignment list yields the same columns, the
\* same sequence of position rows with the same values, and under every
\* position the same worker rows with the same values: the outcome for a
\* list agrees in these with the outcome for every exchange of two entries.
C7_OrderIndependence ==
    Called =>
        \A permuted \in Exchanges(Assignments) :
            LET other == process_schedule_data(NewLoader, GoodSnapshot(permuted),
                                               EMPTY_POSITION_ID).outcome
            IN  /\ other.kind = Last.kind
                /\ other.columns = Last.columns
                /\ SelectSeq(other.rows, IsPositionRow) = SelectSeq(Last.rows, IsPositionRow)
                /\ GroupSets(other.rows) = GroupSets(Last.rows)

\* C7 witness: a table was returned for a list of three different
\* assignments in which one worker has two tasks on one date.
C7_Witness ==
    /\ Returned
    /\ Len(Assignments) = 3
    /\ Cardinality(Exchanges(Assignments)) = 4
    /\ \E i, j \in DOMAIN Assignments :
          /\ Assignments[i].task_id # Assignments[j].task_id
          /\ Assignments[i].worker_id = Assignments[j].worker_id
          /\ TaskOf(Assignments[i].task_id).date = TaskOf(Assignments[j].task_id).date

\* an assignment whose task, worker or non-null task position has no record
Dangling(a) ==
    \/ a.task_id \notin TaskIds
    \/ a.worker_id \notin WorkerIds
    \/ /\ a.task_id \in TaskIds
       /\ TaskOf(a.task_id).position_id # None
       /\ TaskOf(a.task_id).position_id[1] \notin PositionIds

Parses(date_str) == strptime(date_str).ok

\* C9: if the date of a task referenced by an assignment does not parse,
\* process_schedule_data raises ScheduleProcessorError; _format_date raises
\* ScheduleProcessorError for every string that does not parse as a date.
C9_UnparseableDate ==
    /\ Called /\ (\E d \in AssignedDates : ~Parses(d)) =>
          Last.kind = "raise" /\ Last.exc = "ScheduleProcessorError"
    /\ formatted.arg # None /\ ~Parses(formatted.arg[1]) =>
          formatted.exc = "ScheduleProcessorError"

\* C9 witness: both process_schedule_data and _format_date have raised on
\* the date string "invalid-date" of an assigned task.
C9_Witness ==
    /\ Raised
    /\ D_invalid \in AssignedDates
    /\ formatted.arg = Some(D_invalid)
    /\ formatted.exc # ""

\* C10: when a data file is missing, unreadable, not valid JSON or not a
\* list, a GET on the schedule_table endpoint answers with code
\* "DATA_LOAD_ERROR".
C10_DataLoadErrorCode ==
    /\ response # NoResponse
    /\ \E f \in FileNames : files[f].kind \in {"missing", "unreadable", "invalid_json", "not_list"}
    => response.code = "DATA_LOAD_ERROR"

\* an exception that is neither DataLoaderError nor ScheduleProcessorError
Unexpected(outcome) ==
    outcome.kind = "raise" /\ outcome.exc \notin {"DataLoaderError", "ScheduleProcessorError"}

\* t occurs in the str s
Contains(s, t) == \E i \in 0..(Len(s) - Len(t)) : SubSeq(s, i + 1, i + Len(t)) = t

\* C11: schedule_table answers 200 with the table as the whole body when
\* get_schedule_data returns, 500 with code "DATA_LOAD_ERROR" when it raises
\* DataLoaderError, 500 with code "PROCESSING_ERROR" when it raises
\* ScheduleProcessorError and 500 with code "INTERNAL_ERROR" for any other
\* exception; a Response is returned in every case, and the INTERNAL_ERROR
\* body is the same for every exception type and message.
C11_ErrorEnvelope ==
    Called =>
        /\ response.status \in {200, 500}
        /\ Last.kind = "table" =>
              /\ response.status = 200
              /\ response.data = [columns |-> Last.columns, rows |-> Last.rows]
              /\ response.code = "" /\ response.error = ""
        /\ Last.kind = "raise" /\ Last.exc = "DataLoaderError" =>
              response.status = 500 /\ response.code = "DATA_LOAD_ERROR"
        /\ Last.kind = "raise" /\ Last.exc = "ScheduleProcessorError" =>
              response.status = 500 /\ response.code = "PROCESSING_ERROR"
        /\ Unexpected(Last) =>
              /\ response.status = 500 /\ response.code = "INTERNAL_ERROR"
              /\ response = [status |-> 500, code |-> "INTERNAL_ERROR",
                             error |-> "Internal server error",
                             detail |-> <<"An unexpected error occurred">>,
                             data |-> [columns |-> <<>>, rows |-> <<>>]]

\* C11 witness: two requests in a row were answered INTERNAL_ERROR for
\* exceptions of different types and messages, after which the answer is
\* unchanged.
C11_Witness ==
    /\ Len(calls) = 2
    /\ Unexpected(calls[1]) /\ Unexpected(calls[2])
    /\ calls[1].exc # calls[2].exc
    /\ calls[1].cause # calls[2].cause
    /\ response.code = "INTERNAL_ERROR"

\* C12: when get_schedule_data raises an exception that is neither
\* DataLoaderError nor ScheduleProcessorError, the response has status 500,
\* code "INTERNAL_ERROR" and an "error" field that contains the text
\* "An unexpected error occurred".
C12_UnexpectedErrorText ==
    Called /\ Unexpected(Last) =>
        /\ response.status = 500
        /\ response.code = "INTERNAL_ERROR"
        /\ Contains(response.error, "An unexpected error occurred")

\* the loader raises DataLoaderError when it reads this file
Unloadable(file) == file.kind \in {"missing", "unreadable", "invalid_json", "not_list"}

WorkersMoved(workers) ==
    [i \in DOMAIN workers |->
        [workers[i] EXCEPT !.position_id = IF @ = Some(1) THEN Some(2) ELSE Some(1)]]

WorkersUnplaced(workers) == [i \in DOMAIN workers |-> [workers[i] EXCEPT !.position_id = None]]

WorkersBare(workers) == [i \in DOMAIN workers |-> [id |-> workers[i].id, name |-> workers[i].name]]

WorkerVariants(workers) == {WorkersMoved(workers), WorkersUnplaced(workers), WorkersBare(workers)}

WorkerOf(worker_id) ==
    files.workers.data[CHOOSE i \in DOMAIN files.workers.data :
                          files.workers.data[i].id = worker_id]

\* the rows of the table hold a row of the worker beneath the row of the position
InGroup(rows, position_id, worker_name) ==
    \E r \in PositionRowIndexes(rows) :
       /\ PositionNamed(rows[r][1]) = position_id
       /\ \E j \in WorkerRowsBeneath(rows, r) : rows[j][1] = worker_name

\* C14: the outcome of process_schedule_data is the same for every
\* workers.json that differs only in the workers' position_id fields, and in
\* a returned table every assignment puts its worker into the group of its
\* task's position_id, or of Empty Position when that is null.
C14_TaskPosition ==
    Called =>
        /\ \A workers \in WorkerVariants(files.workers.data) :
              process_schedule_data(NewLoader, [files EXCEPT !.workers.data = workers],
                                    EMPTY_POSITION_ID).outcome = Last
        /\ Returned =>
              \A i \in DOMAIN Assignments :
                 InGroup(Last.rows, EffectivePosition(TaskOf(Assignments[i].task_id)),
                         WorkerOf(Assignments[i].worker_id).name)

\* C14 witness: a table was returned in which a worker whose own position
\* is Manager has a row in the Developer group and a worker whose own
\* position is Developer has a row in the Empty Position group.
C14_Witness ==
    /\ Returned
    /\ \E i, j \in DOMAIN Assignments :
          /\ WorkerOf(Assignments[i].worker_id).position_id = Some(1)
          /\ EffectivePosition(TaskOf(Assignments[i].task_id)) = 2
          /\ WorkerOf(Assignments[j].worker_id).position_id = Some(2)
          /\ TaskOf(Assignments[j].task_id).position_id = None

\* the effective positions of the assigned tasks
AssignedPositions ==
    {EffectivePosition(TaskOf(Assignments[i].task_id)) : i \in DOMAIN Assignments}

\* the workers with at least one assignment to a task of the position
WorkersIn(position_id) ==
    {Assignments[i].worker_id :
        i \in {j \in DOMAIN Assignments :
                  EffectivePosition(TaskOf(Assignments[j].task_id)) = position_id}}

\* C15: the rows are a concatenation of groups, one per distinct effective
\* position of the assigned tasks; a group is the position row with the
\* position's name followed by exactly one worker row for each distinct
\* worker assigned to a task of that position; the number of rows is the
\* number of positions plus the sum of the numbers of their workers.
C15_Hierarchy ==
    Returned =>
        LET rows == Last.rows
            P    == PositionRowIndexes(rows)
        IN  /\ rows # <<>> => IsPositionRow(rows[1])
            /\ {PositionNamed(rows[r][1]) : r \in P} = AssignedPositions
            /\ Cardinality(P) = Cardinality(AssignedPositions)
            /\ \A r \in P :
                  LET beneath == WorkerRowsBeneath(rows, r)
                      group   == WorkersIn(PositionNamed(rows[r][1]))
                  IN  /\ beneath = (r + 1)..(r + Cardinality(group))
                      /\ {rows[j][1] : j \in beneath} = {WorkerOf(w).name : w \in group}
            /\ Len(rows) = Cardinality(AssignedPositions)
                              + SumOver(AssignedPositions,
                                        [p \in AssignedPositions |-> Cardinality(WorkersIn(p))])

\* C15 witness: a table of two groups with one worker row each was
\* returned for a list in which a worker is assigned twice in one position.
C15_Witness ==
    /\ Returned
    /\ Cardinality(AssignedPositions) = 2
    /\ \E p \in AssignedPositions :
          Cardinality({j \in DOMAIN Assignments :
                         EffectivePosition(TaskOf(Assignments[j].task_id)) = p})
             > Cardinality(WorkersIn(p))
    /\ Len(Last.rows) = 4

\* the calendar date a date string stands for
DateOf(date_str) ==
    [year |-> strptime(date_str).year, month |-> strptime(date_str).month,
     day |-> strptime(date_str).day]

\* date.__lt__
DateLess(a, b) ==
    \/ a.year < b.year
    \/ a.year = b.year /\ a.month < b.month
    \/ a.year = b.year /\ a.month = b.month /\ a.day < b.day

\* the dates of a set in ascending chronological order
RECURSIVE Chronological(_)
Chronological(S) ==
    IF S = {} THEN <<>>
    ELSE LET m == CHOOSE x \in S : \A y \in S \ {x} : DateLess(x, y)
         IN  <<m>> \o Chronological(S \ {m})

\* the distinct calendar dates of the assigned tasks, in chronological order
AssignedCalendar == Chronological({DateOf(d) : d \in AssignedDates})

\* C16: in a non-empty table, columns is "Name" followed by one column per
\* distinct calendar date of the assigned tasks in ascending chronological
\* order, and the i-th value of every row is the row's hours on the i-th of
\* these dates; for all date strings that parse, with or without zero
\* padding.
C16_ColumnOrder ==
    Returned /\ Last.rows # <<>> /\ (\A d \in AssignedDates : Parses(d)) =>
        /\ Last.columns =
              <<NameColumn>> \o [k \in 1..Len(AssignedCalendar) |-> date_format(AssignedCalendar[k])]
        /\ \A r \in DOMAIN Last.rows :
              /\ Len(Last.rows[r]) = 1 + Len(AssignedCalendar)
              /\ \A k \in 1..Len(AssignedCalendar) :
                    Last.rows[r][k + 1] =
                       IF IsPositionRow(Last.rows[r])
                       THEN Hours({i \in DOMAIN Assignments :
                                     /\ EffectivePosition(TaskOf(Assignments[i].task_id))
                                           = PositionNamed(Last.rows[r][1])
                                     /\ DateOf(TaskOf(Assignments[i].task_id).date)
                                           = AssignedCalendar[k]})
                       ELSE Hours({i \in DOMAIN Assignments :
                                     /\ Assignments[i].worker_id = WorkerNamed(Last.rows[r][1]).id
                                     /\ DateOf(TaskOf(Assignments[i].task_id).date)
                                           = AssignedCalendar[k]})

\* str(n) for 0 <= n <= 99: no leading zero
Decimal(n) ==
    IF n < 10 THEN <<AsciiOrder[Ord("0") + n]>>
    ELSE <<AsciiOrder[Ord("0") + (n \div 10)], AsciiOrder[Ord("0") + (n % 10)]>>

\* C17: for every date string that parses, _format_date returns the day of
\* the month without leading zero, a space, the three-letter month
\* abbreviation, a space and the two-digit year: "15 Jan 25" for 2025-01-15,
\* one digit for the days 1 to 9.
C17_DisplayFormat ==
    formatted.arg # None /\ Parses(formatted.arg[1]) =>
        /\ formatted.exc = ""
        /\ formatted.value =
              Decimal(DateOf(formatted.arg[1]).day)
                 \o <<" ", MonthAbbr[DateOf(formatted.arg[1]).month], " ">>
                 \o TwoDigits(DateOf(formatted.arg[1]).year % 100)

\* the fields the processor and the loader read of a record of each file
RequiredFields(f) ==
    CASE f = "positions"   -> {"id", "name"}
      [] f = "workers"     -> {"id", "name"}
      [] f = "tasks"       -> {"id", "duration", "date"}
      [] f = "assignments" -> {"task_id", "worker_id"}

\* the content of the file is not a list, or a record lacks a required field
Malformed(f) ==
    \/ files[f].kind = "not_list"
    \/ /\ files[f].kind = "list"
       /\ \E i \in DOMAIN files[f].data : ~(RequiredFields(f) \subseteq DOMAIN files[f].data[i])

\* C18: a file whose content is not a list or that holds a record lacking a
\* required field is reported as DataLoaderError by the get_* call that
\* loads it, and a process_schedule_data call that fails over such a file
\* fails with that DataLoaderError, never with an error of the aggregation.
C18_LoadTimeValidation ==
    /\ loaded.op = "get" /\ Malformed(loaded.file) => loaded.exc = "DataLoaderError"
    /\ Raised /\ (\E f \in FileNames : Malformed(f)) => Last.cause = "DataLoaderError"

\* the file loads: it is a list whose records all have the key of the
\* lookup dictionary
Loadable(f) ==
    /\ files[f].kind = "list"
    /\ \A i \in DOMAIN files[f].data : HasKey(files[f].data[i], KeyOf(f))

\* C19: when threads call get_X and get_X_by_id at the same time on a loader
\* that was never refreshed, over a file that loads, no caller is past the
\* test of the list, or about to use the dictionary, while the list is
\* cached and the dictionary is still None, and no get_X_by_id call fails
\* because the dictionary is None.
C19_ConsistentSnapshot ==
    \A t \in Threads :
       ~refreshed /\ threads[t].op \in {"get", "get_by_id"} /\ Loadable(threads[t].file) =>
          /\ threads[t].pc \in {"return", "by_id_get"} =>
                ~(/\ loader[ListField(threads[t].file)] # None
                  /\ loader[DictField(threads[t].file)] = None)
          /\ threads[t].pc = "done" => threads[t].exc # "AttributeError"

\* a statement of refresh_cache is the one that runs
Clearing == \E t \in Threads : threads[t].pc = "clear" /\ threads'[t] # threads[t]

\* C20: between two refresh_cache calls, and from construction to the
\* first, every file is read and cached at most once, under every
\* interleaving of get_X and get_X_by_id calls; and a cache attribute that
\* is set becomes None only by a statement of refresh_cache.
C20_PopulateOnce ==
    /\ [](\A f \in FileNames : reads[f] <= 1)
    /\ [][\A field \in DOMAIN loader :
             loader[field] # None /\ loader'[field] = None => Clearing]_vars

\* C21: in any sequence of calls to _get_data_loader, _get_processor and
\* get_schedule_data at most one DataLoader and one ScheduleDataProcessor
\* are created: the globals hold the first instance of each, once set they
\* never change, so every call returns the same object, and the processor's
\* data_loader is the loader _get_data_loader returns.
C21_SingletonReuse ==
    /\ [](/\ _data_loader # None => _data_loader = Some(1)
          /\ _processor # None =>
                /\ _processor[1].id = 1
                /\ _data_loader = Some(_processor[1].data_loader))
    /\ [][/\ _data_loader # None => _data_loader' = _data_loader
          /\ _processor # None => _processor' = _processor]_vars

\* C21 witness: get_schedule_data was called twice and both globals are set.
C21_Witness ==
    /\ Len(calls) = 2
    /\ _data_loader # None
    /\ _processor # None

\* what get_X (op "get": the list) or get_X_by_id(id) (the record or None)
\* returns over the list of file f
ValueOver(op, f, list, id) ==
    IF op = "get" THEN list
    ELSE IF \E i \in DOMAIN list : list[i][KeyOf(f)] = id
         THEN Some(ById(list, KeyOf(f))[id])
         ELSE None

\* the step is a get_X or get_X_by_id call on the loader
GetStep == loaded' # loaded /\ loaded'.op \in {"get", "get_by_id"}

\* C22: after refresh_cache the four lists and the four dictionaries are
\* None; a get_X or get_X_by_id call that finds them None reads the file and
\* returns its current content; a call on a populated loader returns what
\* is cached and leaves the cache as it is, whatever the file holds now; and
\* a cached value changes only by refresh_cache, so it is the content read
\* when the cache was populated.
C22_RefreshSemantics ==
    /\ [](loaded.op = "refresh_cache" => loader = NewLoader)
    /\ [][GetStep /\ loader[ListField(loaded'.file)] = None =>
             /\ loaded'.exc = ""
             /\ loader'[ListField(loaded'.file)] = Some(files[loaded'.file].data)
             /\ loaded'.value = ValueOver(loaded'.op, loaded'.file, files[loaded'.file].data,
                                          loaded'.arg)]_vars
    /\ [][GetStep /\ loader[ListField(loaded'.file)] # None =>
             /\ loader' = loader
             /\ loaded'.exc = ""
             /\ loaded'.value = ValueOver(loaded'.op, loaded'.file,
                                          loader[ListField(loaded'.file)][1], loaded'.arg)]_vars
    /\ [][\A field \in DOMAIN loader :
             loader[field] # None /\ loader'[field] # loader[field] =>
                loaded'.op = "refresh_cache"]_vars

\* C22 witness: after a refresh_cache and a new population, a file was
\* rewritten and the get_X call that followed returned the content cached
\* before, which differs from the file's.
C22_Witness ==
    /\ refreshed
    /\ loaded.op = "get"
    /\ loaded.exc = ""
    /\ loaded.value # files[loaded.file].data

\* the hours of all the worker's assignments on the date, over all positions
WorkerTotal(worker_id, date) ==
    Hours({i \in DOMAIN Assignments :
              /\ Assignments[i].worker_id = worker_id
              /\ TaskOf(Assignments[i].task_id).date = date})

\* the indexes of the rows of the worker beneath the row of the position
RowsOf(rows, position_id, worker_id) ==
    {j \in DOMAIN rows :
        /\ rows[j][1] = WorkerOf(worker_id).name
        /\ \E r \in PositionRowIndexes(rows) :
              /\ PositionNamed(rows[r][1]) = position_id
              /\ j \in WorkerRowsBeneath(rows, r)}

\* C23: in a returned table a worker has exactly one row in the group of
\* every position the worker is assigned a task of, and each of these rows
\* shows, in every date column, the hours of all the worker's assignments
\* on that date, whatever the position of their tasks.
C23_WorkerRowsByWorker ==
    Returned =>
        \A p \in AssignedPositions :
           \A w \in WorkersIn(p) :
              /\ Cardinality(RowsOf(Last.rows, p, w)) = 1
              /\ \A j \in RowsOf(Last.rows, p, w) :
                    \A d \in AssignedDates :
                       Last.rows[j][ColumnOf(Last.columns, d)] = WorkerTotal(w, d)

\* C23 witness: a table was returned in which a worker with tasks of two
\* positions on one date has a row in both groups, and the row in each
\* group shows more hours on that date than the worker has in that position.
C23_Witness ==
    /\ Returned
    /\ \E w \in WorkerIds, d \in AssignedDates :
          \E p, q \in AssignedPositions :
             /\ p # q
             /\ w \in WorkersIn(p) \cap WorkersIn(q)
             /\ \A x \in {p, q} :
                   /\ RowsOf(Last.rows, x, w) # {}
                   /\ \A j \in RowsOf(Last.rows, x, w) :
                         Last.rows[j][ColumnOf(Last.columns, d)]
                            > Hours({i \in DOMAIN Assignments :
                                        /\ Assignments[i].worker_id = w
                                        /\ TaskOf(Assignments[i].task_id).date = d
                                        /\ EffectivePosition(TaskOf(Assignments[i].task_id)) = x})

\* C24: after a get_X call that raised DataLoaderError, the cached list and
\* the lookup dictionary of X are both None, and a get_X call made next
\* over the unchanged file raises DataLoaderError again.
C24_FailedLoadLeavesCache ==
    loaded.op = "get" /\ loaded.exc = "DataLoaderError" =>
        /\ loader[ListField(loaded.file)] = None
        /\ loader[DictField(loaded.file)] = None
        /\ LoadAndCache(loader, files[loaded.file], ListField(loaded.file),
                        DictField(loaded.file), KeyOf(loaded.file)).exc = "DataLoaderError"

\* the ids of the tasks, workers and positions reached from an assignment
ReferencedTasks == {Assignments[i].task_id : i \in DOMAIN Assignments}

ReferencedWorkers == {Assignments[i].worker_id : i \in DOMAIN Assignments}

ReferencedPositions ==
    {TaskOf(t).position_id[1] : t \in {u \in ReferencedTasks \cap TaskIds :
                                          TaskOf(u).position_id # None}}

\* the files without the records that no assignment reaches
PrunedFiles ==
    [files EXCEPT
       !.tasks.data     = SelectSeq(@, LAMBDA task : task.id \in ReferencedTasks),
       !.workers.data   = SelectSeq(@, LAMBDA worker : worker.id \in ReferencedWorkers),
       !.positions.data = SelectSeq(@, LAMBDA position : position.id \in ReferencedPositions)]

\* C25: the outcome of process_schedule_data is the outcome over the files
\* without the tasks, workers and positions that no assignment reaches; in
\* a returned table no row carries the name of a position without assigned
\* task or of a worker without assignment; and when every assignment
\* resolves and the date of every assigned task parses, a table is
\* returned, whatever the dates and position_ids of the other tasks.
C25_UnreferencedRecords ==
    Called =>
        /\ Last = process_schedule_data(NewLoader, PrunedFiles, EMPTY_POSITION_ID).outcome
        /\ Returned =>
              \A j \in DOMAIN Last.rows :
                 /\ \A p \in PositionIds \ ReferencedPositions :
                       Last.rows[j][1] # files.positions.data[
                          CHOOSE i \in DOMAIN files.positions.data :
                             files.positions.data[i].id = p].name
                 /\ \A w \in WorkerIds \ ReferencedWorkers :
                       Last.rows[j][1] # WorkerOf(w).name
        /\ (\A i \in DOMAIN Assignments :
               Resolves(Assignments[i]) /\ Parses(TaskOf(Assignments[i].task_id).date))
              => Returned

\* C25 witness: a table with rows was returned while tasks.json holds an
\* unassigned task whose date does not parse and an unassigned task whose
\* position_id has no record, positions.json holds a position without
\* assigned task, and workers.json holds a worker without assignment.
C25_Witness ==
    /\ Returned
    /\ Last.rows # <<>>
    /\ \E t \in TaskIds \ ReferencedTasks : ~Parses(TaskOf(t).date)
    /\ \E t \in TaskIds \ ReferencedTasks :
          TaskOf(t).position_id # None /\ TaskOf(t).position_id[1] \notin PositionIds
    /\ PositionIds \ ReferencedPositions # {}
    /\ WorkerIds \ ReferencedWorkers # {}

\* C26: a process_schedule_data call that runs while other threads run
\* refresh_cache on the same loader, over valid and unchanged files, has
\* the outcome of a call that runs alone, and does not fail with the
\* AttributeError of a lookup dictionary that is None when it is used.
C26_RefreshRace ==
    Called =>
        /\ Last = process_schedule_data(NewLoader, files, EMPTY_POSITION_ID).outcome
        /\ Last.cause # "AttributeError"

====
